---- MODULE Spec2Model ----
(***************************************************************************)
(* Model of the earthsim command-line entry point                          *)
(* (src/earthsim/__main__.py): the import guard that binds                 *)
(* add_pv_commands at module load, the stub registration loop, and main:   *)
(* parser construction, registration, parse_args and dispatch.             *)
(*                                                                         *)
(* argparse (standard library) is modelled by what it does on the tokens   *)
(* of Tokens: the top-level parser scans left to right, the version and    *)
(* help actions exit 0 as soon as they are met, an unknown option is       *)
(* kept as an extra, the first positional is taken by the sub-parsers      *)
(* action together with everything after it, and a non-empty list of       *)
(* extras is an "unrecognized arguments" error.  The sub-parsers action is  *)
(* optional, as in Python 3: an empty command line parses to a namespace   *)
(* without func.                                                           *)
(***************************************************************************)
EXTENDS Integers, Sequences, FiniteSets, TLC

\* ---------------------------------------------------------------- bounds
MaxArgs == 2        \* longest process command line (sys.argv[1:]) explored
MaxCalls == 2       \* calls of main in one process

\* ------------------------------------------------------------- constants
\* the same name listed twice
pvcommands_Duplicate == <<"install_examples", "install_examples">>

pvcommands == <<"install_examples", "download_data">>

prog == "earthsim"

\* the message returned by earthsim._missing_cmd()
missing_cmd == "missing command: optional dependency not installed"

MustSupply == "must supply command to run"
InvalidChoice == "invalid choice"
Unrecognized == "unrecognized arguments"
VersionText == "earthsim <version>"
HelpText == "usage"

NoCmd == "<none>"
NoParser == "<no parser>"

\* the command-line tokens explored
OptionLike == {"--version", "--ver", "-h", "--bogus"}
Tokens == OptionLike \cup {"install_examples", "download_data", "bogus"}

RECURSIVE SeqsUpTo(_, _)
SeqsUpTo(S, n) ==
  IF n = 0 THEN {<<>>}
  ELSE LET shorter == SeqsUpTo(S, n - 1)
       IN shorter \cup {Append(s, t) : s \in {x \in shorter : Len(x) = n - 1}, t \in S}

ArgLists == SeqsUpTo(Tokens, MaxArgs)

\* what a caller may pass as main's args parameter: nothing, or a short list
NoArgs == [given |-> FALSE, val |-> <<>>]
ArgsParams == {NoArgs} \cup {[given |-> TRUE, val |-> <<>>]}
              \cup {[given |-> TRUE, val |-> <<t>>] : t \in Tokens}

\* behaviour of a sub-parser registered by the external library on the
\* arguments that follow its command name: it is an opaque interface
ExtOutcomes == {"accept", "reject", "exit0"}
\* exit statuses an external handler may end the process with
ExtStatuses == {0, 1}

VARIABLES
  importable,       \* whether `from pvutil.cmd import add_pv_commands` succeeds now
  add_pv_commands,  \* module global: "unbound", "delegated" or "stub"
  sys_argv,         \* sys.argv[1:]
  pc,               \* position of the process
  calls,            \* number of calls of main so far
  args,             \* main's parameter
  parser,           \* option strings of the top-level parser
  subparsers,       \* add_parser calls, in order: [name, kind]
  variant,          \* the add_pv_commands function main called
  i,                \* loop index of the stub registration
  p,                \* the local p of the stub add_pv_commands (closure cell)
  parsed_input,     \* the sequence parse_args consumed
  namespace,        \* result of parse_args: [cmd, func]
  invoked,          \* handler invocations of this call
  exit_status,      \* -1 while running / after a normal return
  message,          \* what was printed
  error_parser      \* the parser whose error/exit path reported

vars == <<importable, add_pv_commands, sys_argv, pc, calls, args, parser,
          subparsers, variant, i, p, parsed_input, namespace, invoked,
          exit_status, message, error_parser>>

NoNamespace == [cmd |-> NoCmd, func |-> "none"]

\* ------------------------------------------------------------ module load
\* the import without its except clause: the ImportError escapes
ImportGuard_NoExcept(avail) == IF avail THEN "delegated" ELSE "ImportError"

\* try: from pvutil.cmd import add_pv_commands / except ImportError: def ...
ImportGuard(avail) == IF avail THEN "delegated" ELSE "stub"

\* the import attempted again by every call of main
LookupAddPvCommands_PerCall(binding, avail) == IF avail THEN "delegated" ELSE "stub"

\* main refers to the module global bound at load
LookupAddPvCommands(binding, avail) == binding

\* ------------------------------------------------------------- argparse
Range(s) == {s[k] : k \in 1..Len(s)}

Names(subs) == {subs[k].name : k \in 1..Len(subs)}

\* the sub-parser a name maps to: a later add_parser replaces an earlier one
KindOf(subs, c) ==
  subs[CHOOSE k \in 1..Len(subs) :
         subs[k].name = c /\ \A j \in 1..Len(subs) : subs[j].name = c => j <= k].kind

\* the --version argument never added to the parser
IsVersionOption_Missing(opts, t) == FALSE

\* allow_abbrev: an unambiguous prefix of --version selects the version action
IsVersionOption(opts, t) == "--version" \in opts /\ t \in {"--version", "--ver"}
IsHelpOption(opts, t) == "-h" \in opts /\ t = "-h"

Exit(st, msg, who) ==
  [exit |-> TRUE, status |-> st, message |-> msg, reporter |-> who, ns |-> NoNamespace]
Parsed(c, f) ==
  [exit |-> FALSE, status |-> -1, message |-> "", reporter |-> NoParser,
   ns |-> [cmd |-> c, func |-> f]]

\* parser.error of the top-level parser for left-over arguments, else the namespace
Finish(extras, c, f) ==
  IF extras # <<>> THEN Exit(2, Unrecognized, prog) ELSE Parsed(c, f)

\* a sub-parser made by parser.add_parser(c) with no arguments of its own:
\* only -h is known, everything else is left over
StubSubParser(c, rest, extras) ==
  IF "-h" \in Range(rest) THEN Exit(0, HelpText, c)
  ELSE Finish(extras \o rest, c, "stub")

\* a sub-parser registered by the external library: whether it takes the
\* arguments after its name, rejects them or exits 0 is its own business
ExternalSubParser(c, rest, extras, ext) ==
  IF ext = "accept" THEN Finish(extras, c, "external")
  ELSE IF ext = "reject" THEN Exit(2, Unrecognized, c)
  ELSE Exit(0, HelpText, c)

\* the sub-parsers action without the check of the name against its choices
SubParsersAction_NoChoiceCheck(subs, argv, k, extras, ext) ==
  LET c == argv[k]
      rest == SubSeq(argv, k + 1, Len(argv))
  IN IF c \notin Names(subs) THEN Finish(extras, NoCmd, "none")
     ELSE IF KindOf(subs, c) = "stub" THEN StubSubParser(c, rest, extras)
     ELSE ExternalSubParser(c, rest, extras, ext)

\* the sub-parsers action: nargs=PARSER takes the name and all that follows
SubParsersAction(subs, argv, k, extras, ext) ==
  LET c == argv[k]
      rest == SubSeq(argv, k + 1, Len(argv))
  IN IF c \notin Names(subs) THEN Exit(2, InvalidChoice, prog)
     ELSE IF KindOf(subs, c) = "stub" THEN StubSubParser(c, rest, extras)
     ELSE ExternalSubParser(c, rest, extras, ext)

RECURSIVE Scan(_, _, _, _, _, _)
Scan(opts, subs, argv, k, extras, ext) ==
  IF k > Len(argv) THEN Finish(extras, NoCmd, "none")
  ELSE LET t == argv[k]
       IN IF IsVersionOption(opts, t) THEN Exit(0, VersionText, prog)
          ELSE IF IsHelpOption(opts, t) THEN Exit(0, HelpText, prog)
          ELSE IF t \in OptionLike THEN Scan(opts, subs, argv, k + 1, Append(extras, t), ext)
          ELSE SubParsersAction(subs, argv, k, extras, ext)

parse_args(opts, subs, argv, ext) == Scan(opts, subs, argv, 1, <<>>, ext)

\* parser.parse_args() is called without an argument: it reads sys.argv[1:]
ParseInput(a, argv) == argv

\* --------------------------------------------------------------- dispatch
hasattr_func(ns) == ns.func # "none"

\* the handler called a second time
CallFunc_Twice(inv, ns) ==
  inv \o <<[cmd |-> ns.cmd, func |-> ns.func], [cmd |-> ns.cmd, func |-> ns.func]>>

\* args.func(args): the handler bound by the selected sub-parser is called
CallFunc(inv, ns) == Append(inv, [cmd |-> ns.cmd, func |-> ns.func])

\* a stub that returns without reporting anything
StubHandler_Silent(cell) == [status |-> 0, message |-> "", reporter |-> NoParser]

\* lambda args: p.error(_missing_cmd()) -- p is read when the lambda runs
StubHandler(cell) == [status |-> 2, message |-> missing_cmd, reporter |-> cell]

\* main falling through without an error when no command was given
NoCommandError_Silent == [status |-> 0, message |-> "", reporter |-> NoParser]

\* parser.error("must supply command to run")
NoCommandError == [status |-> 2, message |-> MustSupply, reporter |-> prog]

\* ---------------------------------------------------------------- actions
Init ==
  /\ importable \in BOOLEAN
  /\ add_pv_commands = "unbound"
  /\ sys_argv \in ArgLists
  /\ pc = "load"
  /\ calls = 0
  /\ args = NoArgs
  /\ parser = {}
  /\ subparsers = <<>>
  /\ variant = "unbound"
  /\ i = 0
  /\ p = NoParser
  /\ parsed_input = <<>>
  /\ namespace = NoNamespace
  /\ invoked = <<>>
  /\ exit_status = -1
  /\ message = ""
  /\ error_parser = NoParser

\* lines 8-14: the import guard runs once, when the module is loaded
ModuleLoad ==
  /\ pc = "load"
  /\ LET b == ImportGuard(importable)
     IN IF b \in {"delegated", "stub"}
        THEN add_pv_commands' = b /\ pc' = "idle"
        ELSE add_pv_commands' = add_pv_commands /\ pc' = "crashed"
  /\ UNCHANGED <<importable, sys_argv, calls, args, parser, subparsers, variant, i, p,
                 parsed_input, namespace, invoked, exit_status, message, error_parser>>

\* the environment installs or removes pvutil between two calls of main
EnvChange ==
  /\ pc = "idle"
  /\ importable' = ~importable
  /\ UNCHANGED <<add_pv_commands, sys_argv, pc, calls, args, parser, subparsers, variant,
                 i, p, parsed_input, namespace, invoked, exit_status, message, error_parser>>

\* main(args): lines 16-19, a fresh parser with --version and the sub-parsers action
CallMain ==
  /\ pc = "idle"
  /\ calls < MaxCalls
  /\ \E a \in ArgsParams : args' = a
  /\ calls' = calls + 1
  /\ parser' = {"-h", "--version"}
  /\ subparsers' = <<>>
  /\ variant' = "unbound"
  /\ i' = 0
  /\ p' = NoParser
  /\ parsed_input' = <<>>
  /\ namespace' = NoNamespace
  /\ invoked' = <<>>
  /\ exit_status' = -1
  /\ message' = ""
  /\ error_parser' = NoParser
  /\ pc' = "register"
  /\ UNCHANGED <<importable, add_pv_commands, sys_argv>>

\* line 20 with the external add_pv_commands: one sub-parser per command name
DelegatedRegistration ==
  /\ pc = "register"
  /\ LookupAddPvCommands(add_pv_commands, importable) = "delegated"
  /\ variant' = "delegated"
  /\ subparsers' = [k \in 1..Len(pvcommands) |-> [name |-> pvcommands[k], kind |-> "external"]]
  /\ pc' = "parse"
  /\ UNCHANGED <<importable, add_pv_commands, sys_argv, calls, args, parser, i, p,
                 parsed_input, namespace, invoked, exit_status, message, error_parser>>

\* line 20 with the stub add_pv_commands: enter the loop of lines 13-14
StubRegistration ==
  /\ pc = "register"
  /\ LookupAddPvCommands(add_pv_commands, importable) = "stub"
  /\ variant' = "stub"
  /\ i' = 1
  /\ pc' = IF Len(pvcommands) = 0 THEN "parse" ELSE "stub_loop"
  /\ UNCHANGED <<importable, add_pv_commands, sys_argv, calls, args, parser, subparsers, p,
                 parsed_input, namespace, invoked, exit_status, message, error_parser>>

\* line 14: p = parser.add_parser(c); p.set_defaults(func=lambda args: p.error(...))
StubIteration ==
  /\ pc = "stub_loop"
  /\ i <= Len(pvcommands)
  /\ p' = pvcommands[i]
  /\ subparsers' = Append(subparsers, [name |-> pvcommands[i], kind |-> "stub"])
  /\ i' = i + 1
  /\ pc' = IF i = Len(pvcommands) THEN "parse" ELSE "stub_loop"
  /\ UNCHANGED <<importable, add_pv_commands, sys_argv, calls, args, parser, variant,
                 parsed_input, namespace, invoked, exit_status, message, error_parser>>

\* line 21: args = parser.parse_args()
Parse ==
  /\ pc = "parse"
  /\ \E ext \in ExtOutcomes :
       LET input == ParseInput(args, sys_argv)
           r == parse_args(parser, subparsers, input, ext)
       IN /\ parsed_input' = input
          /\ namespace' = r.ns
          /\ exit_status' = r.status
          /\ message' = r.message
          /\ error_parser' = r.reporter
          /\ pc' = IF r.exit THEN "exited" ELSE "dispatch"
  /\ UNCHANGED <<importable, add_pv_commands, sys_argv, calls, args, parser, subparsers,
                 variant, i, p, invoked>>

\* line 22, no func attribute: parser.error("must supply command to run")
DispatchNoCommand ==
  /\ pc = "dispatch"
  /\ ~hasattr_func(namespace)
  /\ exit_status' = NoCommandError.status
  /\ message' = NoCommandError.message
  /\ error_parser' = NoCommandError.reporter
  /\ pc' = "exited"
  /\ UNCHANGED <<importable, add_pv_commands, sys_argv, calls, args, parser, subparsers,
                 variant, i, p, parsed_input, namespace, invoked>>

\* line 22, args.func(args) with a stub lambda
DispatchStub ==
  /\ pc = "dispatch"
  /\ hasattr_func(namespace)
  /\ namespace.func = "stub"
  /\ invoked' = CallFunc(invoked, namespace)
  /\ exit_status' = StubHandler(p).status
  /\ message' = StubHandler(p).message
  /\ error_parser' = StubHandler(p).reporter
  /\ pc' = "exited"
  /\ UNCHANGED <<importable, add_pv_commands, sys_argv, calls, args, parser, subparsers,
                 variant, i, p, parsed_input, namespace>>

\* line 22, args.func(args) with a handler of the external library:
\* it returns, or ends the process with a status of its own
DispatchExternal ==
  /\ pc = "dispatch"
  /\ hasattr_func(namespace)
  /\ namespace.func = "external"
  /\ invoked' = CallFunc(invoked, namespace)
  /\ \/ pc' = "returned" /\ UNCHANGED exit_status
     \/ \E st \in ExtStatuses : exit_status' = st /\ pc' = "exited"
  /\ UNCHANGED <<importable, add_pv_commands, sys_argv, calls, args, parser, subparsers,
                 variant, i, p, parsed_input, namespace, message, error_parser>>

\* a caller that catches SystemExit (or gets the return) may call main again
BackToCaller ==
  /\ pc \in {"exited", "returned"}
  /\ calls < MaxCalls
  /\ pc' = "idle"
  /\ UNCHANGED <<importable, add_pv_commands, sys_argv, calls, args, parser, subparsers,
                 variant, i, p, parsed_input, namespace, invoked, exit_status, message,
                 error_parser>>

Next ==
  \/ ModuleLoad
  \/ EnvChange
  \/ CallMain
  \/ DelegatedRegistration
  \/ StubRegistration
  \/ StubIteration
  \/ Parse
  \/ DispatchNoCommand
  \/ DispatchStub
  \/ DispatchExternal
  \/ BackToCaller

Spec == Init /\ [][Next]_vars

\* ------------------------------------------------------------ properties
Done == pc \in {"exited", "returned"}

BothNames == {"install_examples", "download_data"}

\* positions of the positional arguments of a command line
PositionalAt(argv) == {k \in 1..Len(argv) : argv[k] \notin OptionLike}

FirstPositional(argv) ==
  CHOOSE k \in PositionalAt(argv) : \A j \in PositionalAt(argv) : k <= j

\* options whose action ends the process when the top-level parser meets them
ExitingOptions == {"--version", "--ver", "-h"}

IsVersionExit == exit_status = 0 /\ message = VersionText
IsHelpExit == exit_status = 0 /\ message = HelpText
IsUsageError ==
  exit_status = 2 /\ message \in {MustSupply, InvalidChoice, Unrecognized} /\ invoked = <<>>
IsStubError ==
  /\ exit_status = 2
  /\ message = missing_cmd
  /\ Len(invoked) = 1
  /\ invoked[1].func = "stub"
  /\ invoked[1].cmd \in BothNames

\* C1 (as stated): every run whose command line has no subcommand and no
\* --version ends in the "must supply command to run" usage error, with a
\* non-zero status and no handler invoked.
C1_NoSubcommandIsMustSupply ==
  (Done /\ PositionalAt(sys_argv) = {} /\ "--version" \notin Range(sys_argv))
    => (pc = "exited" /\ invoked = <<>> /\ exit_status > 0 /\ message = MustSupply)

\* C1 (amended): a run with an empty command line never invokes a handler,
\* never returns normally, and exits with status 2 through the top-level
\* parser's error "must supply command to run", in both variants.
C1_EmptyIsMustSupply ==
  sys_argv = <<>>
    => /\ invoked = <<>>
       /\ pc # "returned"
       /\ pc = "exited" => (exit_status = 2 /\ message = MustSupply /\ error_parser = prog)

C1_Witness ==
  sys_argv = <<>> /\ pc = "exited" /\ variant = "delegated" /\ message = MustSupply

\* C2 (as stated): every run whose command line contains --version, at any
\* position, exits 0 with the version text and runs no handler.  Stated on
\* the stub variant, where no sub-parser of the external library takes part
\* in the outcome.
C2_VersionAnywhere ==
  (Done /\ variant = "stub" /\ "--version" \in Range(sys_argv))
    => (pc = "exited" /\ exit_status = 0 /\ message = VersionText /\ invoked = <<>>)

\* --version is met by the top-level parser: only options that do not end
\* the process come before it
VersionReached(argv) ==
  \E k \in 1..Len(argv) :
    /\ argv[k] = "--version"
    /\ \A j \in 1..(k - 1) : argv[j] \in OptionLike \ {"-h"}

\* C2 (amended): when --version comes before any positional argument and
\* before any -h, the run exits 0 with the version text, never reaches
\* dispatch and runs no handler.
C2_VersionBeforePositional ==
  VersionReached(sys_argv)
    => /\ invoked = <<>>
       /\ pc \notin {"dispatch", "returned"}
       /\ pc = "exited" => (exit_status = 0 /\ message = VersionText)

C2_Witness ==
  /\ pc = "exited"
  /\ Len(sys_argv) = 2
  /\ sys_argv[1] = "--version"
  /\ sys_argv[2] \in BothNames
  /\ IsVersionExit

\* C3: in the stub variant, the command line <<install_examples>> or
\* <<download_data>> ends with the stub handler of that command invoked
\* once, the missing-dependency message reported through a sub-parser's
\* error path, and exit status 2; the run never returns normally.
C3_StubCommandFails ==
  (variant = "stub" /\ Done /\ (\E c \in BothNames : sys_argv = <<c>>))
    => /\ pc = "exited"
       /\ invoked = <<[cmd |-> sys_argv[1], func |-> "stub"]>>
       /\ exit_status = 2
       /\ message = missing_cmd
       /\ error_parser \in Names(subparsers)

C3_Witness ==
  /\ variant = "stub"
  /\ pc = "exited"
  /\ sys_argv = <<"install_examples">>
  /\ message = missing_cmd

\* C4: when main is given args, parse_args consumes args and not the
\* process command line.
C4_ArgsAreParsed ==
  (pc \in {"dispatch", "exited", "returned"} /\ args.given) => parsed_input = args.val

\* the first positional argument is not a registered name
FirstPositionalUnregistered(argv) ==
  PositionalAt(argv) # {} /\ argv[FirstPositional(argv)] \notin BothNames

\* C5 (as stated): every run whose first positional argument is not a
\* registered name exits non-zero with "invalid choice", no handler invoked.
C5_UnregisteredIsInvalidChoice ==
  (Done /\ FirstPositionalUnregistered(sys_argv))
    => (pc = "exited" /\ exit_status = 2 /\ message = InvalidChoice /\ invoked = <<>>)

\* C5 (amended): the same, provided no --version (or abbreviation of it)
\* and no -h comes before that positional argument.
C5_UnregisteredReachedIsInvalidChoice ==
  (/\ FirstPositionalUnregistered(sys_argv)
   /\ \A j \in 1..(FirstPositional(sys_argv) - 1) : sys_argv[j] \notin ExitingOptions)
    => /\ invoked = <<>>
       /\ pc \notin {"dispatch", "returned"}
       /\ pc = "exited" =>
            (exit_status = 2 /\ message = InvalidChoice /\ error_parser = prog)

C5_Witness ==
  /\ pc = "exited"
  /\ sys_argv = <<"--bogus", "bogus">>
  /\ message = InvalidChoice
  /\ variant = "stub"

\* what C6 says besides the list of outcomes: a failed import never stops
\* the module from loading, both names get registered, no run returns
\* normally, and the missing-dependency message only comes from a stub
\* handler that was selected.
C6_Graceful ==
  /\ pc # "crashed"
  /\ add_pv_commands = "stub" =>
       /\ pc \in {"parse", "dispatch", "exited", "returned"} =>
            (variant = "stub" /\ Names(subparsers) = BothNames)
       /\ pc # "returned"
       /\ message = missing_cmd =>
            (IsStubError /\ PositionalAt(sys_argv) # {}
               /\ sys_argv[FirstPositional(sys_argv)] = invoked[1].cmd)

\* C6 (as stated): with the import failed, every run ends in the version
\* exit, a usage error or a stub error.
C6_ThreeOutcomes ==
  /\ C6_Graceful
  /\ (add_pv_commands = "stub" /\ pc = "exited")
       => (IsVersionExit \/ IsUsageError \/ IsStubError)

\* C6 (amended): with the import failed, every run ends in the version
\* exit, the help exit (-h), a usage error or a stub error.
C6_FourOutcomes ==
  /\ C6_Graceful
  /\ (add_pv_commands = "stub" /\ pc = "exited")
       => (IsVersionExit \/ IsHelpExit \/ IsUsageError \/ IsStubError)

C6_Witness ==
  add_pv_commands = "stub" /\ ~importable /\ pc = "exited" /\ IsStubError

\* C7: no name is ever registered twice in one call of main, and once
\* registration is over there are exactly two sub-parsers, named
\* install_examples and download_data (one per entry of the predefined list).
C7_NamesRegisteredOnce ==
  /\ \A j, k \in 1..Len(subparsers) : subparsers[j].name = subparsers[k].name => j = k
  /\ pc \in {"parse", "dispatch", "exited", "returned"} =>
       (Names(subparsers) = BothNames /\ Len(subparsers) = 2)

C7_Witness ==
  variant = "stub" /\ pc = "parse" /\ Len(subparsers) = 2 /\ p = "download_data"

KindFor(v) == IF v = "stub" THEN "stub" ELSE "external"

\* C8: the variant is bound once, at module load, from whether the import
\* succeeds then; it never changes afterwards, every call of main uses it,
\* and all sub-parsers of one call come from that variant.
C8_VariantChosenOnce ==
  [][/\ add_pv_commands # "unbound" => add_pv_commands' = add_pv_commands
     /\ (add_pv_commands = "unbound" /\ add_pv_commands' # "unbound") =>
          (pc = "load" /\ add_pv_commands' = IF importable THEN "delegated" ELSE "stub")
     /\ variant' # "unbound" => variant' = add_pv_commands'
     /\ \A k \in 1..Len(subparsers') : subparsers'[k].kind = KindFor(variant')]_vars

C8_Witness ==
  calls = 2 /\ variant = "stub" /\ importable /\ pc = "parse"

\* C9: at dispatch exactly one of two things happens: a namespace with a
\* func has that func, the one bound by the selected sub-parser, invoked
\* once and no "must supply command" error; a namespace without one gets
\* the "must supply command to run" error and no handler.  Nothing is
\* parsed or dispatched before registration is over, and a handler runs
\* only from dispatch.
C9_DispatchExactlyOne ==
  [][/\ Len(invoked') <= 1
     /\ (pc = "dispatch" /\ hasattr_func(namespace)) =>
          /\ namespace.cmd \in Names(subparsers)
          /\ namespace.func = KindOf(subparsers, namespace.cmd)
          /\ invoked' = <<[cmd |-> namespace.cmd, func |-> namespace.func]>>
          /\ message' # MustSupply
     /\ (pc = "dispatch" /\ ~hasattr_func(namespace)) =>
          (invoked' = <<>> /\ message' = MustSupply /\ exit_status' = 2 /\ pc' = "exited")
     /\ pc' \in {"register", "stub_loop", "parse"} =>
          (invoked' = <<>> /\ namespace' = NoNamespace /\ exit_status' = -1 /\ message' = "")
     /\ pc' \in {"parse", "dispatch"} =>
          (variant' # "unbound" /\ Names(subparsers') = BothNames)
     /\ pc' = "dispatch" => pc = "parse"
     /\ invoked' # invoked => (pc = "dispatch" \/ invoked' = <<>>)]_vars

C9_Witness ==
  pc = "returned" /\ Len(invoked) = 1 /\ invoked[1].cmd = "download_data"

\* C10: in the stub variant the missing-dependency error is reported by the
\* sub-parser of the command that was selected.
C10_StubReportsThroughOwnParser ==
  (variant = "stub" /\ pc = "exited" /\ invoked # <<>>) => error_parser = invoked[1].cmd

====
